---- MODULE Spec2Model ----
(***************************************************************************)
(* Model of sensor_net.py: the SensorNetwork request/response layer over   *)
(* an XBee ZigBee radio.  One delivery context (the xbee callback          *)
(* _handle_data) appends inbound frames to _message_queue and registers    *)
(* discovered nodes; caller threads run the facade operations              *)
(* (get_node_io, get_payload_info, get_data, send_data), which validate,   *)
(* transmit and then spin in _wait_for_response over the shared list.      *)
(***************************************************************************)
EXTENDS Integers, Sequences, FiniteSets, TLC

\* ------------------------------------------------------------------ bounds
MaxQueue == 2
MaxTime == 2
MaxReplies == 1
MaxDiscover == 2

\* ------------------------------------------------------- class Packet
DATA_REQUEST == 16
DATA_RESPONSE == 17
IO_REQUEST == 18
IO_RESPONSE == 19
INFO_REQUEST == 20
INFO_RESPONSE == 21
SET_REQUEST == 22
DATA_ALERT == 23
CTRL_NACK == 254
CTRL_ACK == 255

\* ------------------------------------------------- class Node.Payload
INT_1B_OUTPUT == 0
INT_2B_OUTPUT == 1
INT_1B_INPUT == 2
INT_2B_INPUT == 3
DIGITAL_INPUT == 4
DIGITAL_OUTPUT == 5
BYTE_INPUT == 6
BYTE_OUTPUT == 7

PayloadValues == {INT_1B_OUTPUT, INT_2B_OUTPUT, INT_1B_INPUT, INT_2B_INPUT,
                  DIGITAL_INPUT, DIGITAL_OUTPUT, BYTE_INPUT, BYTE_OUTPUT}

\* ------------------------------------------------------ Python values
\* A Python value is a record tagged with its type(), so that the checks
\* `type(x) != T` of the facade are decided as the interpreter decides them.
PyInt(n) == [type |-> "int", value |-> n]
PyBool(b) == [type |-> "bool", value |-> b]
PyBytes(s) == [type |-> "bytes", value |-> s]
PyList(s) == [type |-> "list", value |-> s]
PyStr(s) == [type |-> "str", value |-> s]
PyPayload(v) == [type |-> "Payload", value |-> v]
PyNone == [type |-> "NoneType"]

\* Optional arguments that the code tests with `is None`.
None == <<>>
Some(x) == <<x>>
IsNone(o) == o = <<>>
Val(o) == o[1]

\* ---------------------------------------------------- integer operators
RECURSIVE Pow2(_)
Pow2(n) == IF n = 0 THEN 1 ELSE 2 * Pow2(n - 1)

\* x << n and x >> n on non-negative Python ints.
Shl(x, n) == x * Pow2(n)
Shr(x, n) == x \div Pow2(n)

\* x & y and x ^ y on non-negative Python ints.
RECURSIVE BitAnd(_, _)
BitAnd(x, y) ==
    IF x = 0 \/ y = 0 THEN 0
    ELSE (IF x % 2 = 1 /\ y % 2 = 1 THEN 1 ELSE 0) + 2 * BitAnd(x \div 2, y \div 2)

RECURSIVE BitXor(_, _)
BitXor(x, y) ==
    IF x = 0 THEN y
    ELSE IF y = 0 THEN x
    ELSE (IF x % 2 # y % 2 THEN 1 ELSE 0) + 2 * BitXor(x \div 2, y \div 2)

\* s[a:b] of a bytes object, 0-based and clamped as Python slices are.
Slice(s, a, b) ==
    LET hi == IF b < Len(s) THEN b ELSE Len(s)
    IN  IF a >= hi THEN <<>> ELSE SubSeq(s, a + 1, hi)

\* s[1:]
Tail1(s) == Slice(s, 1, Len(s))

\* ------------------------------------------------------------ class Node
\* Node.__init__: addr = hash(hi ^ lo) of the two 32-bit halves of long_addr
\* (hash of a small non-negative int is the int itself).
NodeAddr(long_addr) == BitXor(long_addr[1], long_addr[2])

Node(long_addr, identifier) ==
    [type |-> "Node", addr |-> NodeAddr(long_addr),
     long_addr |-> long_addr, identifier |-> identifier]

\* Long addresses, as the pair of halves struct.unpack("II", ...) yields.
AddrA == <<0, 1>>
AddrB == <<1, 0>>
AddrC == <<1, 1>>

NodeA == Node(AddrA, "a")
NodeB == Node(AddrB, "b")

\* ------------------------------------------------- inbound xbee packets
\* The dicts the xbee library hands to the callback.
RxPacket(long_addr, body) ==
    [id |-> "rx", source_addr_long |-> long_addr, rf_data |-> body]

TxStatus(status) == [id |-> "tx_status", deliver_status |-> status]

AtResponse(command, long_addr, identifier) ==
    [id |-> "at_response", command |-> command,
     parameter |-> [source_addr_long |-> long_addr, node_identifier |-> identifier]]

ModemStatus == [id |-> "status", status |-> 0]

\* The value of the local `msg` while no frame is held.
NoMsg == [id |-> "none"]

\* (payload.value << 4) + index
KindIndexByte(pv, index) == Shl(pv, 4) + index

\* ------------------------------------------------ _wait_for_response
\* The arguments of one _wait_for_response call; timeout None becomes 0.
Criteria(node, type_, fail_type, following, count, timeout) ==
    [node |-> node, type_ |-> type_, fail_type |-> fail_type,
     following |-> following, count |-> count,
     timeout |-> IF IsNone(timeout) THEN 0 ELSE Val(timeout)]

NoCriteria == Criteria(NodeA, 0, 0, None, None, None)

\* Line 181: the message is from the target node.
FromTarget(m, cr) ==
    "source_addr_long" \in DOMAIN m /\ m.source_addr_long = cr.node.long_addr

\* Lines 183-198: the if/elif chain that decides whether msg is the response.
Accepts(m, cr) ==
    LET d == m.rf_data
        f == Val(cr.following)
    IN  /\ FromTarget(m, cr)
        /\ Len(d) > 0
        /\ d[1] = cr.type_
        /\ IF IsNone(cr.following) /\ IsNone(cr.count) THEN TRUE
           ELSE IF IsNone(cr.count) /\ Len(d) > Len(f)
                   /\ Slice(d, 1, Len(f) + 1) = f THEN TRUE
           ELSE IF IsNone(cr.following) /\ Len(d) = Val(cr.count) THEN TRUE
           \* `len(...) == count` is False when count is None, or when the
           \* branch above failed on the same test: the rest is not evaluated
           ELSE IF IsNone(cr.count) \/ IsNone(cr.following) THEN FALSE
           ELSE /\ Len(d) = Val(cr.count)
                /\ Len(d) > 1 + Len(f)
                /\ Slice(d, 1, Len(f) + 1) = f

\* Faulty variant of IsNackFor: the NACK is compared with the awaited type,
\* not with the type of the request.
IsNackFor_AwaitedType(m, cr) ==
    /\ FromTarget(m, cr)
    /\ Len(m.rf_data) = 2
    /\ m.rf_data[1] = CTRL_NACK
    /\ m.rf_data[2] = cr.type_

\* Line 200: the message is the NACK of the request that was transmitted.
IsNackFor(m, cr) ==
    /\ FromTarget(m, cr)
    /\ Len(m.rf_data) = 2
    /\ m.rf_data[1] = CTRL_NACK
    /\ m.rf_data[2] = cr.fail_type

\* Faulty variant of Examine: the check for the NACK is left out.
Examine_ResponseOnly(m, cr) == IF Accepts(m, cr) THEN "match" ELSE "next"

\* What the loop body does with the message it was handed.
Examine(m, cr) ==
    IF Accepts(m, cr) THEN "match"
    ELSE IF IsNackFor(m, cr) THEN "nack"
    ELSE "next"

\* Faulty variant of TimedOut: the deadline test without `timeout > 0`.
TimedOut_Unarmed(timeout, clock, deadline) == clock > deadline

\* Line 203: the deadline test after a pass over the queue.
TimedOut(timeout, clock, deadline) == timeout > 0 /\ clock > deadline

\* list.remove(x): drops the first item equal to x.
RECURSIVE IndexOf(_, _, _)
IndexOf(q, x, i) ==
    IF i > Len(q) THEN 0
    ELSE IF q[i] = x THEN i
    ELSE IndexOf(q, x, i + 1)

Contains(q, x) == IndexOf(q, x, 1) # 0

\* Faulty variant of ListRemove: every item equal to x is dropped.
ListRemove_AllEqual(q, x) == SelectSeq(q, LAMBDA m : m # x)

\* Faulty variant of ListRemove: the newest item is dropped, as pop() would.
ListRemove_PopLast(q, x) == SubSeq(q, 1, Len(q) - 1)

\* Faulty variant of ListRemove: the head of the list is dropped, as pop(0) would.
ListRemove_PopFirst(q, x) == Tail(q)

ListRemove(q, x) ==
    LET i == IndexOf(q, x, 1)
    IN  SubSeq(q, 1, i - 1) \o SubSeq(q, i + 1, Len(q))

\* ------------------------------------------------------------- facade
\* What a facade operation does before it waits: it raises, or transmits
\* `tx` and then either waits with `crit` or returns at once.
Raise(e) == [kind |-> "raise", err |-> e]
TxAndWait(node, data, cr) ==
    [kind |-> "wait", tx |-> [dest_addr_long |-> node.long_addr, data |-> data],
     crit |-> cr]
TxAndReturn(node, data) ==
    [kind |-> "return", tx |-> [dest_addr_long |-> node.long_addr, data |-> data]]

\* Faulty variant of SinkKinds: DIGITAL_OUTPUT listed in place of DIGITAL_INPUT.
SinkKinds_Swapped == {DIGITAL_OUTPUT, BYTE_INPUT, INT_1B_INPUT, INT_2B_INPUT}

\* Line 302 of send_data: the kinds data can be sent to.
SinkKinds == {DIGITAL_INPUT, BYTE_INPUT, INT_1B_INPUT, INT_2B_INPUT}

\* Faulty variant of IndexOutOfBounds: the upper bound off by one.
IndexOutOfBounds_OffByOne(i) == i < 0 \/ i > 16

\* Lines 242, 271 and 304: `index < 0 or index > 15`.
IndexOutOfBounds(i) == i < 0 \/ i > 15

\* Faulty variant of AckCriteria: any CTRL_ACK frame of the node is awaited,
\* with no prefix.
AckCriteria_Generic(node, timeout) ==
    Criteria(node, CTRL_ACK, SET_REQUEST, None, None, timeout)

\* Line 332: what send_data waits for after the transmission.
AckCriteria(node, timeout) ==
    Criteria(node, CTRL_ACK, SET_REQUEST, Some(<<SET_REQUEST>>), None, timeout)

\* Lines 215-221 of get_node_io.
get_node_io(a) ==
    IF a.node.type # "Node" THEN Raise("TypeError")
    ELSE TxAndWait(a.node, <<IO_REQUEST>>,
                   Criteria(a.node, IO_RESPONSE, IO_REQUEST, None, None, a.timeout))

\* Lines 236-246 of get_payload_info.
get_payload_info(a) ==
    IF a.node.type # "Node" THEN Raise("TypeError")
    ELSE IF a.payload.type # "Payload" THEN Raise("TypeError")
    ELSE IF a.index.type # "int" THEN Raise("TypeError")
    ELSE IF IndexOutOfBounds(a.index.value) THEN Raise("ValueError")
    ELSE LET kib == KindIndexByte(a.payload.value, a.index.value)
         IN  TxAndWait(a.node, <<INFO_REQUEST, kib>>,
                       Criteria(a.node, INFO_RESPONSE, INFO_REQUEST,
                                Some(<<kib>>), None, a.timeout))

\* Lines 263-285 of get_data.
get_data(a) ==
    IF a.node.type # "Node" THEN Raise("TypeError")
    ELSE IF a.payload.type # "Payload" THEN Raise("TypeError")
    ELSE IF a.index.type # "int" THEN Raise("TypeError")
    ELSE IF a.payload.value \in {DIGITAL_INPUT, BYTE_INPUT} THEN Raise("ValueError")
    ELSE IF IndexOutOfBounds(a.index.value) THEN Raise("ValueError")
    ELSE LET pv == a.payload.value
             kib == KindIndexByte(pv, a.index.value)
             tx == <<DATA_REQUEST, kib>>
             cr(count) == Criteria(a.node, DATA_RESPONSE, DATA_REQUEST,
                                   Some(<<kib>>), count, a.timeout)
         IN  IF pv = DIGITAL_OUTPUT THEN TxAndWait(a.node, tx, cr(Some(3)))
             ELSE IF pv = INT_1B_OUTPUT THEN TxAndWait(a.node, tx, cr(Some(3)))
             ELSE IF pv = INT_2B_OUTPUT THEN TxAndWait(a.node, tx, cr(Some(4)))
             ELSE IF pv = BYTE_OUTPUT THEN TxAndWait(a.node, tx, cr(None))
             \* no branch of the if/elif chain is taken: the call returns None
             ELSE TxAndReturn(a.node, tx)

\* Lines 323-328 of send_data: the byte built from a list of 8 bools.
RECURSIVE EncodeBools(_, _)
EncodeBools(data, i) ==
    IF i < 0 THEN 0
    ELSE (IF data[i + 1].value = TRUE THEN Shl(1, i) ELSE 0) + EncodeBools(data, i - 1)

\* Lines 296-332 of send_data.
send_data(a) ==
    IF a.node.type # "Node" THEN Raise("TypeError")
    ELSE IF a.payload.type # "Payload" THEN Raise("TypeError")
    ELSE IF a.index.type # "int" THEN Raise("TypeError")
    ELSE IF a.payload.value \notin SinkKinds THEN Raise("ValueError")
    ELSE IF IndexOutOfBounds(a.index.value) THEN Raise("ValueError")
    ELSE LET pv == a.payload.value
             kib == KindIndexByte(pv, a.index.value)
             cr == AckCriteria(a.node, a.timeout)
         IN  IF pv = BYTE_INPUT THEN
                 \* bytes + data raises TypeError unless data is bytes
                 IF a.data.type # "bytes" THEN Raise("TypeError")
                 ELSE TxAndWait(a.node, <<SET_REQUEST, kib>> \o a.data.value, cr)
             ELSE IF pv = INT_1B_INPUT THEN
                 IF a.data.type # "int" THEN Raise("TypeError")
                 ELSE IF a.data.value < 0 \/ a.data.value > 255 THEN Raise("ValueError")
                 ELSE TxAndWait(a.node, <<SET_REQUEST, kib, a.data.value>>, cr)
             ELSE IF pv = INT_2B_INPUT THEN
                 IF a.data.type # "int" THEN Raise("TypeError")
                 ELSE IF a.data.value < 0 \/ a.data.value > 65535 THEN Raise("ValueError")
                 ELSE TxAndWait(a.node,
                                <<SET_REQUEST, kib, Shr(a.data.value, 8),
                                  BitAnd(a.data.value, 255)>>, cr)
             ELSE \* DIGITAL_INPUT
                 IF a.data.type \notin {"list", "tuple"} THEN Raise("ValueError")
                 ELSE IF Len(a.data.value) # 8 THEN Raise("ValueError")
                 ELSE IF \E i \in 1..8 : a.data.value[i].type # "bool"
                      THEN Raise("ValueError")
                 ELSE TxAndWait(a.node,
                                <<SET_REQUEST, kib, EncodeBools(a.data.value, 7)>>, cr)

\* The public operation named by a call.
Facade(a) ==
    IF a.op = "get_node_io" THEN get_node_io(a)
    ELSE IF a.op = "get_payload_info" THEN get_payload_info(a)
    ELSE IF a.op = "get_data" THEN get_data(a)
    ELSE send_data(a)

\* Faulty variant of DecodeBools: the bits read least-significant first.
DecodeBools_LsbFirst(d) ==
    [k \in 1..8 |-> Shr(BitAnd(d, Shl(1, k - 1)), k - 1) = 1]

\* Line 277 of get_data: the list of 8 bools read from one data byte.
DecodeBools(d) ==
    [k \in 1..8 |-> Shr(BitAnd(d, Shl(1, 8 - k)), 8 - k) = 1]

\* Faulty variant of DecodeIO: the low nibble taken as the count itself.
RECURSIVE DecodeIO_ZeroBased(_, _)
DecodeIO_ZeroBased(body, n) ==
    IF n = 0 THEN <<>>
    ELSE LET prev == DecodeIO_ZeroBased(body, n - 1)
             b == body[n]
             kind == Shr(b, 4)
         IN  [k \in (DOMAIN prev) \cup {kind} |->
                 IF k = kind THEN BitAnd(b, 15) ELSE prev[k]]

\* Lines 221-223 of get_node_io: the dict built from the response bytes; a
\* later byte of the same kind overwrites an earlier one.
RECURSIVE DecodeIO(_, _)
DecodeIO(body, n) ==
    IF n = 0 THEN <<>>
    ELSE LET prev == DecodeIO(body, n - 1)
             b == body[n]
             kind == Shr(b, 4)
         IN  [k \in (DOMAIN prev) \cup {kind} |->
                 IF k = kind THEN BitAnd(b, 15) + 1 ELSE prev[k]]

\* What the operation returns for the bytes _wait_for_response returned.
\* Node.Payload(b >> 4) raises ValueError for a value that is no member.
Decode(a, resp) ==
    IF a.op = "_wait_for_response" THEN [ok |-> TRUE, value |-> resp]
    ELSE IF a.op = "get_node_io" THEN
        IF \E n \in 1..Len(resp) : Shr(resp[n], 4) \notin PayloadValues
        THEN [ok |-> FALSE, value |-> "ValueError"]
        ELSE [ok |-> TRUE, value |-> DecodeIO(resp, Len(resp))]
    ELSE IF a.op = "get_payload_info" THEN [ok |-> TRUE, value |-> Tail1(resp)]
    ELSE IF a.op = "get_data" THEN
        LET data == Tail1(resp)
        IN  IF a.payload.value = DIGITAL_OUTPUT
                THEN [ok |-> TRUE, value |-> DecodeBools(data[1])]
            ELSE IF a.payload.value = INT_1B_OUTPUT
                THEN [ok |-> TRUE, value |-> data[1]]
            ELSE IF a.payload.value = INT_2B_OUTPUT
                THEN [ok |-> TRUE, value |-> Shl(data[1], 8) + data[2]]
            ELSE [ok |-> TRUE, value |-> data]
    ELSE [ok |-> TRUE, value |-> PyNone]

\* -------------------------------------------------------------- state
VARIABLES
    message_queue,  \* SensorNetwork._message_queue
    slave_nodes,    \* SensorNetwork._slave_nodes, keyed by Node.addr
    sent,           \* what was handed to xbee.tx, in order
    now,            \* time.time()
    pc,             \* where each caller thread stands
    req,            \* the arguments of the caller's facade call
    crit,           \* the arguments of its _wait_for_response call
    timer,          \* its local `timer`
    idx,            \* the position of its list iterator (1-based)
    msg,            \* its local `msg` once it has decided to remove it
    found,          \* which branch decided that: "match" or "nack"
    result          \* what the facade call returned or raised

vars == <<message_queue, slave_nodes, sent, now, pc, req, crit, timer, idx,
          msg, found, result>>

Callers == {"c1", "c2"}

Call(op, node, payload, index, data, timeout) ==
    [op |-> op, node |-> node, payload |-> payload, index |-> index,
     data |-> data, timeout |-> timeout]

NoCall == Call("none", PyNone, PyNone, PyNone, PyNone, None)
NoResult == [ok |-> TRUE, value |-> "pending"]
Returned(v) == [ok |-> TRUE, value |-> v]
Raised(e) == [ok |-> FALSE, value |-> e]

\* SensorNetwork.__init__
Init ==
    /\ message_queue = <<>>
    /\ slave_nodes = <<>>
    /\ sent = <<>>
    /\ now = 0
    /\ pc = [c \in Callers |-> "idle"]
    /\ req = [c \in Callers |-> NoCall]
    /\ crit = [c \in Callers |-> NoCriteria]
    /\ timer = [c \in Callers |-> 0]
    /\ idx = [c \in Callers |-> 0]
    /\ msg = [c \in Callers |-> NoMsg]
    /\ found = [c \in Callers |-> "none"]
    /\ result = [c \in Callers |-> NoResult]

\* Faulty variant of QueuedTypes: DATA_ALERT frames are queued as well.
QueuedTypes_WithAlert ==
    {IO_RESPONSE, INFO_RESPONSE, DATA_RESPONSE, CTRL_ACK, CTRL_NACK, DATA_ALERT}

\* The rf_data tags _handle_data queues (lines 123-137).
QueuedTypes == {IO_RESPONSE, INFO_RESPONSE, DATA_RESPONSE, CTRL_ACK, CTRL_NACK}

\* _handle_data(data): the xbee callback, run in the delivery thread.
HandleData(data) ==
    /\ IF "rf_data" \in DOMAIN data THEN
           \* data['rf_data'][0] of an empty body raises IndexError in the callback
           IF Len(data.rf_data) > 0 /\ data.rf_data[1] \in QueuedTypes THEN
               /\ Len(message_queue) < MaxQueue
               /\ message_queue' = Append(message_queue, data)
               /\ UNCHANGED slave_nodes
           ELSE UNCHANGED <<message_queue, slave_nodes>>
       ELSE IF "id" \in DOMAIN data /\ data.id = "tx_status" THEN
           UNCHANGED <<message_queue, slave_nodes>>
       ELSE IF "command" \in DOMAIN data THEN
           IF data.command = "ND" THEN
               LET node == Node(data.parameter.source_addr_long,
                                data.parameter.node_identifier)
               IN  /\ slave_nodes' =
                          [k \in (DOMAIN slave_nodes) \cup {node.addr} |->
                              IF k = node.addr THEN node ELSE slave_nodes[k]]
                   /\ UNCHANGED message_queue
           ELSE UNCHANGED <<message_queue, slave_nodes>>
       ELSE UNCHANGED <<message_queue, slave_nodes>>
    /\ UNCHANGED <<sent, now, pc, req, crit, timer, idx, msg, found, result>>

\* A caller thread enters a facade operation: validation, xbee.tx and the
\* first lines of _wait_for_response (timer, the first list iterator).
Invoke(c, a) ==
    /\ pc[c] = "idle"
    /\ LET f == Facade(a)
       IN  /\ req' = [req EXCEPT ![c] = a]
           /\ IF f.kind = "raise" THEN
                  /\ pc' = [pc EXCEPT ![c] = "raised"]
                  /\ result' = [result EXCEPT ![c] = Raised(f.err)]
                  /\ UNCHANGED <<sent, crit, timer, idx>>
              ELSE IF f.kind = "return" THEN
                  /\ sent' = Append(sent, f.tx)
                  /\ pc' = [pc EXCEPT ![c] = "returned"]
                  /\ result' = [result EXCEPT ![c] = Returned(PyNone)]
                  /\ UNCHANGED <<crit, timer, idx>>
              ELSE
                  /\ f.crit.timeout > 0 => now + f.crit.timeout < MaxTime
                  /\ sent' = Append(sent, f.tx)
                  /\ crit' = [crit EXCEPT ![c] = f.crit]
                  /\ timer' = [timer EXCEPT ![c] = now + f.crit.timeout]
                  /\ idx' = [idx EXCEPT ![c] = 1]
                  /\ pc' = [pc EXCEPT ![c] = "scan"]
                  /\ UNCHANGED result
    /\ UNCHANGED <<message_queue, slave_nodes, now, msg, found>>

\* One step of `for msg in self._message_queue`: the iterator hands out the
\* item at its position, or ends the pass; the loop body examines the item.
ScanNext(c) ==
    /\ pc[c] = "scan"
    /\ IF idx[c] <= Len(message_queue) THEN
           LET m == message_queue[idx[c]]
               e == Examine(m, crit[c])
           IN  IF e = "next" THEN
                   /\ idx' = [idx EXCEPT ![c] = idx[c] + 1]
                   /\ UNCHANGED <<pc, msg, found>>
               ELSE
                   /\ pc' = [pc EXCEPT ![c] = "remove"]
                   /\ msg' = [msg EXCEPT ![c] = m]
                   /\ found' = [found EXCEPT ![c] = e]
                   /\ idx' = [idx EXCEPT ![c] = 0]
       ELSE
           /\ pc' = [pc EXCEPT ![c] = "deadline"]
           /\ idx' = [idx EXCEPT ![c] = 0]
           /\ UNCHANGED <<msg, found>>
    /\ UNCHANGED <<message_queue, slave_nodes, sent, now, req, crit, timer, result>>

\* self._message_queue.remove(msg), then the return or the raise that
\* follows it; list.remove raises ValueError when no equal item is left.
Remove(c) ==
    /\ pc[c] = "remove"
    /\ IF Contains(message_queue, msg[c]) THEN
           /\ message_queue' = ListRemove(message_queue, msg[c])
           /\ IF found[c] = "nack" THEN
                  /\ pc' = [pc EXCEPT ![c] = "nacked"]
                  /\ result' = [result EXCEPT ![c] = Raised("ProtocolError")]
              ELSE
                  /\ pc' = [pc EXCEPT ![c] = "matched"]
                  /\ result' = [result EXCEPT ![c] =
                                   Decode(req[c], Tail1(msg[c].rf_data))]
       ELSE
           /\ pc' = [pc EXCEPT ![c] = "crashed"]
           /\ result' = [result EXCEPT ![c] = Raised("ValueError")]
           /\ UNCHANGED message_queue
    /\ UNCHANGED <<slave_nodes, sent, now, req, crit, timer, idx, msg, found>>

\* Lines 203-204: after a pass, raise on an elapsed deadline or scan again.
Deadline(c) ==
    /\ pc[c] = "deadline"
    /\ IF TimedOut(crit[c].timeout, now, timer[c]) THEN
           /\ pc' = [pc EXCEPT ![c] = "timed_out"]
           /\ result' = [result EXCEPT ![c] = Raised("ProtocolError")]
           /\ UNCHANGED idx
       ELSE
           /\ pc' = [pc EXCEPT ![c] = "scan"]
           /\ idx' = [idx EXCEPT ![c] = 1]
           /\ UNCHANGED result
    /\ UNCHANGED <<message_queue, slave_nodes, sent, now, req, crit, timer, msg, found>>

\* time.time() advances.
Tick ==
    /\ now < MaxTime
    /\ now' = now + 1
    /\ UNCHANGED <<message_queue, slave_nodes, sent, pc, req, crit, timer, idx,
                   msg, found, result>>

\* ------------------------------------- two caller threads, one radio
\* Each thread makes one call: a read of node A with or without a deadline,
\* a read of node B, or a write to node A.
Calls ==
    {Call("get_data", NodeA, PyPayload(INT_1B_OUTPUT), PyInt(0), PyNone, t) :
        t \in {None, Some(1)}}
    \cup {Call("get_data", NodeB, PyPayload(INT_1B_OUTPUT), PyInt(0), PyNone, None),
          Call("send_data", NodeA, PyPayload(INT_1B_INPUT), PyInt(0), PyInt(7), None)}

BodiesA ==
    {<<DATA_RESPONSE, 0, 5>>, <<CTRL_NACK, DATA_REQUEST>>,
     <<CTRL_ACK>>, <<CTRL_ACK, SET_REQUEST>>, <<DATA_ALERT, 0>>}

BodiesB == {<<DATA_RESPONSE, 0, 5>>}

Packets ==
    {RxPacket(AddrA, b) : b \in BodiesA}
    \cup {RxPacket(AddrB, b) : b \in BodiesB}
    \cup {TxStatus(<<0>>), TxStatus(<<1>>)}

Next ==
    \/ \E d \in Packets : HandleData(d)
    \/ \E c \in Callers, a \in Calls : Invoke(c, a)
    \/ \E c \in Callers : ScanNext(c)
    \/ \E c \in Callers : Remove(c)
    \/ \E c \in Callers : Deadline(c)
    \/ Tick

Spec == Init /\ [][Next]_vars

\* The caller is inside _wait_for_response.
Pending(c) == pc[c] \in {"scan", "remove", "deadline"}

\* --------------------------- one caller, every kind of argument, one node
\* A single thread calls one facade operation with arguments of every kind,
\* valid or not, and the addressed node answers what was transmitted while
\* the call waits for it.
BadNode == PyStr("node")
Bools == {PyBool(TRUE), PyBool(FALSE)}
BoolVectors == {PyList(v) : v \in [1..8 -> Bools]}
AllTrue(n) == PyList([i \in 1..n |-> PyBool(TRUE)])

FacadeNodes == {NodeA, BadNode}
FacadePayloads == {PyPayload(v) : v \in PayloadValues} \cup {PyInt(DIGITAL_INPUT)}
FacadeIndexes == {PyInt(0 - 1), PyInt(0), PyInt(15), PyInt(16), PyBool(TRUE)}
FacadeData ==
    {PyInt(0 - 1), PyInt(0), PyInt(255), PyInt(256), PyInt(65535), PyInt(65536),
     PyBool(TRUE), PyStr("x"), PyBytes(<<1, 2>>),
     AllTrue(7), AllTrue(8), AllTrue(9),
     PyList([i \in 1..8 |-> IF i = 3 THEN PyInt(1) ELSE PyBool(FALSE)])}

FacadeCalls ==
    {Call("get_node_io", n, PyNone, PyNone, PyNone, None) : n \in FacadeNodes}
    \cup {Call(op, n, p, i, PyNone, None) :
            op \in {"get_payload_info", "get_data"}, n \in FacadeNodes,
            p \in FacadePayloads, i \in FacadeIndexes}
    \cup {Call("send_data", n, p, i, d, None) :
            n \in FacadeNodes, p \in FacadePayloads, i \in FacadeIndexes,
            d \in FacadeData}
    \cup {Call("send_data", NodeA, PyPayload(DIGITAL_INPUT), PyInt(0), v, None) :
            v \in BoolVectors}

\* The IO_RESPONSE bodies a node may answer with: every single slot byte
\* (kinds 0..15, counts 1..16), the empty list, two and three slots of
\* distinct kinds, one kind repeated, and a kind that is no Payload member.
IoBodies ==
    {<<IO_RESPONSE, b>> : b \in 0..255}
    \cup {<<IO_RESPONSE>>, <<IO_RESPONSE, 5, 35>>, <<IO_RESPONSE, 127, 16, 106>>,
          <<IO_RESPONSE, 5, 3>>, <<IO_RESPONSE, 5, 128>>}

\* The frame bodies a node may answer a transmitted request with.
AnswersTo(data) ==
    IF data[1] = IO_REQUEST THEN
        IoBodies \cup {<<CTRL_NACK, IO_REQUEST>>}
    ELSE IF data[1] = INFO_REQUEST THEN
        {<<INFO_RESPONSE, data[2], 65, 66>>, <<CTRL_NACK, INFO_REQUEST>>}
    ELSE IF data[1] = DATA_REQUEST THEN
        {<<CTRL_NACK, DATA_REQUEST>>} \cup
        (IF Shr(data[2], 4) = DIGITAL_OUTPUT
            THEN {<<DATA_RESPONSE, data[2], d>> : d \in 0..255}
         ELSE IF Shr(data[2], 4) = INT_1B_OUTPUT
            THEN {<<DATA_RESPONSE, data[2], d>> : d \in {0, 255}}
         ELSE IF Shr(data[2], 4) = INT_2B_OUTPUT
            THEN {<<DATA_RESPONSE, data[2], d, e>> : d, e \in {1, 255}}
         ELSE {<<DATA_RESPONSE, data[2]>>, <<DATA_RESPONSE, data[2], 1, 2>>})
    ELSE {<<CTRL_ACK>>, <<CTRL_ACK, SET_REQUEST>>, <<CTRL_NACK, SET_REQUEST>>}

FacadePackets ==
    {TxStatus(<<0>>), TxStatus(<<1>>), ModemStatus}
    \cup (IF sent = <<>> THEN {}
          ELSE {RxPacket(sent[Len(sent)].dest_addr_long, b) :
                    b \in AnswersTo(sent[Len(sent)].data)})

FacadeNext ==
    \/ pc["c1"] = "idle" /\ \E a \in FacadeCalls : Invoke("c1", a)
    \/ /\ Pending("c1")
       /\ Len(message_queue) < MaxReplies
       /\ \E d \in FacadePackets : HandleData(d)
    \/ ScanNext("c1")
    \/ Remove("c1")
    \/ Deadline("c1")

FacadeSpec == Init /\ [][FacadeNext]_vars

\* ------------------------------ two readers of node A under a fair scheduler
\* Both threads read node A, with or without a deadline; threads keep running
\* and the clock keeps advancing.
LiveCalls ==
    {Call("get_data", NodeA, PyPayload(INT_1B_OUTPUT), PyInt(0), PyNone, t) :
        t \in {None, Some(1)}}

LivePackets ==
    {RxPacket(AddrA, <<DATA_RESPONSE, 0, 5>>),
     RxPacket(AddrA, <<CTRL_NACK, DATA_REQUEST>>),
     RxPacket(AddrB, <<DATA_RESPONSE, 0, 5>>)}

LiveNext ==
    \/ \E d \in LivePackets : HandleData(d)
    \/ \E c \in Callers, a \in LiveCalls : Invoke(c, a)
    \/ \E c \in Callers : ScanNext(c)
    \/ \E c \in Callers : Remove(c)
    \/ \E c \in Callers : Deadline(c)
    \/ Tick

LiveSpec ==
    /\ Init
    /\ [][LiveNext]_vars
    /\ WF_vars(Tick)
    /\ \A c \in Callers :
           WF_vars(ScanNext(c)) /\ WF_vars(Remove(c)) /\ WF_vars(Deadline(c))

\* ------------------------------------- the delivery thread, no caller waits
\* discover(): line 78 hands the ND command to the radio; the sleep that may
\* follow changes nothing.
Discover ==
    /\ Len(sent) < MaxDiscover
    /\ sent' = Append(sent, [command |-> "ND"])
    /\ UNCHANGED <<message_queue, slave_nodes, now, pc, req, crit, timer, idx,
                   msg, found, result>>

\* get_nodes() and get_node_ids(): the values and the keys of the registry.
get_nodes == {slave_nodes[k] : k \in DOMAIN slave_nodes}
get_node_ids == DOMAIN slave_nodes

\* Long addresses of the nodes in range; some share hi ^ lo, some do not.
DiscoveryAddrs == {AddrA, AddrB, AddrC, <<0, 2>>}

\* What the radio hands to the callback once a discovery was started: an ND
\* response per node (under one of two identifiers), a response to another
\* command and a packet of no known kind.
DiscoveryPackets ==
    {AtResponse("ND", a, i) : a \in DiscoveryAddrs, i \in {"a", "b"}}
    \cup {AtResponse("NI", AddrA, "a"), ModemStatus}

\* What the radio hands to the callback at any time: a frame of each type
\* the callback queues, frames of other types, delivery reports.
InboundPackets ==
    {RxPacket(AddrA, b) :
        b \in {<<IO_RESPONSE, 5>>, <<INFO_RESPONSE, 0, 65>>, <<DATA_RESPONSE, 0, 5>>,
               <<CTRL_ACK, SET_REQUEST>>, <<CTRL_NACK, DATA_REQUEST>>,
               <<DATA_ALERT, 0>>, <<DATA_REQUEST, 0>>}}
    \cup {TxStatus(<<0>>), TxStatus(<<1>>)}

DiscoveryNext ==
    \/ Discover
    \/ sent # <<>> /\ \E d \in DiscoveryPackets : HandleData(d)
    \/ \E d \in InboundPackets : HandleData(d)

DiscoverySpec == Init /\ [][DiscoveryNext]_vars

\* ------------------------- _wait_for_response called with every criteria
\* Faulty variant of Wait: the scan starts behind the frames that are already
\* in the mailbox when the call begins.
Wait_SkipBacklog(c, cr) ==
    /\ pc[c] = "idle"
    /\ cr.timeout > 0 => now + cr.timeout < MaxTime
    /\ req' = [req EXCEPT ![c] =
                  Call("_wait_for_response", cr.node, PyNone, PyNone, PyNone, None)]
    /\ crit' = [crit EXCEPT ![c] = cr]
    /\ timer' = [timer EXCEPT ![c] = now + cr.timeout]
    /\ idx' = [idx EXCEPT ![c] = Len(message_queue) + 1]
    /\ pc' = [pc EXCEPT ![c] = "scan"]
    /\ UNCHANGED <<message_queue, slave_nodes, sent, now, msg, found, result>>

\* A thread enters _wait_for_response(node, type_, fail_type, following,
\* count, timeout) itself: lines 176-180, nothing is transmitted.
Wait(c, cr) ==
    /\ pc[c] = "idle"
    /\ cr.timeout > 0 => now + cr.timeout < MaxTime
    /\ req' = [req EXCEPT ![c] =
                  Call("_wait_for_response", cr.node, PyNone, PyNone, PyNone, None)]
    /\ crit' = [crit EXCEPT ![c] = cr]
    /\ timer' = [timer EXCEPT ![c] = now + cr.timeout]
    /\ idx' = [idx EXCEPT ![c] = 1]
    /\ pc' = [pc EXCEPT ![c] = "scan"]
    /\ UNCHANGED <<message_queue, slave_nodes, sent, now, msg, found, result>>

\* The call has ended: it returned or raised.
Ended(c) == pc[c] \notin {"idle", "scan", "remove", "deadline"}

\* Waits for a DATA_RESPONSE of node A: every combination of no prefix, the
\* empty, a one-byte and a two-byte prefix with no length and lengths 1..3,
\* and the wait of get_data for a one-byte integer under a deadline.
WaitPrefixes == {None, Some(<<>>), Some(<<0>>), Some(<<0, 5>>)}
WaitCounts == {None, Some(1), Some(2), Some(3)}
WaitCriteria ==
    {Criteria(NodeA, DATA_RESPONSE, DATA_REQUEST, f, n, None) :
        f \in WaitPrefixes, n \in WaitCounts}
    \cup {Criteria(NodeA, DATA_RESPONSE, DATA_REQUEST, Some(<<0>>), Some(3), Some(1))}

WaitPackets ==
    {RxPacket(AddrA, b) :
        b \in {<<DATA_RESPONSE>>, <<DATA_RESPONSE, 0>>, <<DATA_RESPONSE, 0, 5>>,
               <<DATA_RESPONSE, 0, 6>>, <<DATA_RESPONSE, 1, 5>>,
               <<INFO_RESPONSE, 0, 5>>, <<CTRL_NACK, DATA_REQUEST>>}}
    \cup {RxPacket(AddrB, <<DATA_RESPONSE, 0, 5>>)}

\* The criteria of the call that follows: the same node, types, prefix and
\* length, no deadline.
Again(cr) == [cr EXCEPT !.timeout = 0]

\* One thread waits at a time: c1 makes the first call, and once that call
\* has ended c2 makes the next one with the same criteria.  The clock is
\* read only by a wait under a deadline, so it advances only during one.
WaitNext ==
    \/ pc["c1"] = "idle" /\ \E cr \in WaitCriteria : Wait("c1", cr)
    \/ Ended("c1") /\ Wait("c2", Again(crit["c1"]))
    \/ \E d \in WaitPackets : HandleData(d)
    \/ \E c \in Callers : ScanNext(c)
    \/ \E c \in Callers : Remove(c)
    \/ \E c \in Callers : Deadline(c)
    \/ (\E c \in Callers : Pending(c) /\ crit[c].timeout > 0) /\ Tick

WaitSpec == Init /\ [][WaitNext]_vars

\* --------------------------- a reader of node A beside a reader of node B
\* c1 reads node A and c2 reads node B, both without a deadline; the radio
\* delivers the data response of each node, the NACK of node A's request and
\* a frame of a third node, each held in the mailbox at most once.
PairCall(c) ==
    Call("get_data", IF c = "c1" THEN NodeA ELSE NodeB,
         PyPayload(INT_1B_OUTPUT), PyInt(0), PyNone, None)

PairPackets ==
    {RxPacket(AddrA, <<DATA_RESPONSE, 0, 5>>),
     RxPacket(AddrB, <<DATA_RESPONSE, 0, 7>>),
     RxPacket(AddrA, <<CTRL_NACK, DATA_REQUEST>>),
     RxPacket(AddrC, <<DATA_RESPONSE, 0, 9>>)}

PairNext ==
    \/ \E c \in Callers : Invoke(c, PairCall(c))
    \/ \E d \in PairPackets : ~Contains(message_queue, d) /\ HandleData(d)
    \/ \E c \in Callers : ScanNext(c)
    \/ \E c \in Callers : Remove(c)
    \/ \E c \in Callers : Deadline(c)

PairSpec == Init /\ [][PairNext]_vars

\* ------------------------------------------------------------ properties
\* The steps a caller takes inside _wait_for_response.
WaitStep(c) == ScanNext(c) \/ Remove(c) \/ Deadline(c)

\* The frames of q that did not come from long_addr, in order.
Foreign(q, long_addr) ==
    SelectSeq(q, LAMBDA m : m.source_addr_long # long_addr)

\* q2 is q1 with exactly the item at one position i taken out, q1[i] = x.
RemovedOne(q1, q2, x) ==
    \E i \in 1..Len(q1) :
        /\ q1[i] = x
        /\ Len(q2) = Len(q1) - 1
        /\ \A j \in 1..Len(q2) : q2[j] = IF j < i THEN q1[j] ELSE q1[j + 1]

\* C1: no step of a _wait_for_response call targeting node A, whatever its
\* outcome, removes or reorders a frame whose source address is not A's: the
\* frames of other nodes stay in the mailbox in the same relative order.
C1_ForeignFramesKept ==
    [][\A c \in Callers :
          WaitStep(c) =>
              Foreign(message_queue', crit[c].node.long_addr)
                  = Foreign(message_queue, crit[c].node.long_addr)]_vars

\* A wait for node A has matched and node B's frame is still in the mailbox.
C1_Witness ==
    /\ pc["c1"] = "matched"
    /\ crit["c1"].node = NodeA
    /\ message_queue = <<RxPacket(AddrB, <<DATA_RESPONSE, 0, 5>>)>>
    /\ pc["c2"] = "idle"

\* C2: a scan that reaches the 2-byte frame [254, fail_type] from the target
\* node selects it as the NACK of the request, and its removal while the frame
\* is in the mailbox ends the call with the NACK ProtocolError, takes exactly
\* that frame out and leaves every other frame in place.
C2_NackConsumed ==
    [][\A c \in Callers :
          /\ (/\ ScanNext(c)
              /\ idx[c] <= Len(message_queue)
              /\ message_queue[idx[c]] =
                     RxPacket(crit[c].node.long_addr, <<CTRL_NACK, crit[c].fail_type>>))
             => /\ pc'[c] = "remove"
                /\ found'[c] = "nack"
                /\ msg'[c] = message_queue[idx[c]]
          /\ (/\ Remove(c)
              /\ found[c] = "nack"
              /\ \E i \in 1..Len(message_queue) : message_queue[i] = msg[c])
             => /\ pc'[c] = "nacked"
                /\ result'[c] = Raised("ProtocolError")
                /\ RemovedOne(message_queue, message_queue', msg[c])]_vars

\* A pending DATA_REQUEST ended with the NACK error and [254, 16] is gone.
C2_Witness ==
    /\ pc["c1"] = "nacked"
    /\ req["c1"].op = "get_data"
    /\ msg["c1"] = RxPacket(AddrA, <<CTRL_NACK, DATA_REQUEST>>)
    /\ result["c1"] = Raised("ProtocolError")
    /\ \A i \in 1..Len(message_queue) : message_queue[i] # msg["c1"]

\* C3: the timeout error is raised only for a call that was given a deadline,
\* and only once the clock has reached timer, which is set to start + timeout
\* (start + 0 without a deadline) as the wait begins; and a wait with a
\* positive timeout ends in the timeout error unless its scan finds a
\* qualifying frame or NACK.
C3_Timeout ==
    /\ [](\A c \in Callers :
              pc[c] = "timed_out" =>
                  /\ ~IsNone(req[c].timeout)
                  /\ Val(req[c].timeout) > 0
                  /\ now >= timer[c])
    /\ [][\A c \in Callers :
             (pc[c] = "idle" /\ pc'[c] = "scan") =>
                 timer'[c] = now + Val(req'[c].timeout \o <<0>>)]_vars
    /\ \A c \in Callers :
           (pc[c] \in {"scan", "deadline"} /\ crit[c].timeout > 0)
               ~> (pc[c] \in {"timed_out", "remove"})

\* A call with a deadline timed out on a mailbox that stayed empty.
C3_Witness ==
    /\ pc["c1"] = "timed_out"
    /\ req["c1"].timeout = Some(1)
    /\ message_queue = <<>>
    /\ now > timer["c1"]

\* C7 as stated: a pending send_data call whose scan reaches the generic ACK
\* frame [255] of its node claims that frame as its response.
C7_BareAckCompletes ==
    [][\A c \in Callers :
          (/\ ScanNext(c)
           /\ req[c].op = "send_data"
           /\ idx[c] <= Len(message_queue)
           /\ message_queue[idx[c]] = RxPacket(crit[c].node.long_addr, <<CTRL_ACK>>))
          => (pc'[c] = "remove" /\ found'[c] = "match")]_vars

\* The frame is an ACK of a SET_REQUEST from long_addr: [255, 22, ...].
IsSetAck(m, long_addr) ==
    /\ m.source_addr_long = long_addr
    /\ Len(m.rf_data) >= 2
    /\ m.rf_data[1] = CTRL_ACK
    /\ m.rf_data[2] = SET_REQUEST

\* C7, amended: a pending send_data call claims a frame as its response
\* exactly when the frame comes from its node and begins [255, 22]; the bare
\* [255] is passed over and stays.  The call completes successfully only by
\* taking such a frame, and exactly it, out of the mailbox.
C7_AckCarriesRequestType ==
    [][\A c \in Callers :
          req[c].op = "send_data" =>
              /\ (ScanNext(c) /\ idx[c] <= Len(message_queue))
                 => /\ (pc'[c] = "remove" /\ found'[c] = "match")
                           <=> IsSetAck(message_queue[idx[c]], req[c].node.long_addr)
                    /\ message_queue' = message_queue
              /\ (Remove(c) /\ found[c] = "match"
                   /\ \E i \in 1..Len(message_queue) : message_queue[i] = msg[c])
                 => /\ pc'[c] = "matched"
                    /\ result'[c] = Returned(PyNone)
                    /\ RemovedOne(message_queue, message_queue', msg[c])
              /\ (pc[c] # "matched" /\ pc'[c] = "matched")
                 => /\ IsSetAck(msg[c], req[c].node.long_addr)
                    /\ Len(message_queue') = Len(message_queue) - 1]_vars

\* send_data completed on [255, 22] while a bare [255] that arrived before
\* it is still in the mailbox.
C7_Witness ==
    /\ pc["c1"] = "matched"
    /\ req["c1"].op = "send_data"
    /\ msg["c1"] = RxPacket(AddrA, <<CTRL_ACK, SET_REQUEST>>)
    /\ message_queue = <<RxPacket(AddrA, <<CTRL_ACK>>)>>
    /\ sent[1].data = <<SET_REQUEST, KindIndexByte(INT_1B_INPUT, 0), 7>>

\* C8: a caller that has selected a frame and goes to remove it either claims
\* it (it is taken out once and the call returns) or, the frame having been
\* claimed by the other caller, claims nothing and stays pending.
C8_OneClaimsOtherPends ==
    [][\A c \in Callers :
          (Remove(c) /\ found[c] = "match") =>
              \/ /\ pc'[c] = "matched"
                 /\ RemovedOne(message_queue, message_queue', msg[c])
              \/ /\ Pending(c)'
                 /\ message_queue' = message_queue]_vars

\* The caller has just entered a facade operation.
Entered(c) == pc[c] = "idle" /\ pc'[c] # "idle"

\* The call was refused by validation: it raised, nothing was transmitted,
\* the mailbox is as it was and the caller does not wait.
Rejected(c) ==
    /\ pc'[c] = "raised"
    /\ result'[c] \in {Raised("TypeError"), Raised("ValueError")}
    /\ sent' = sent
    /\ message_queue' = message_queue

\* C4 as stated: get_data with any of the four sink kinds raises a validation
\* error and transmits no frame.
C4_GetDataRejectsSinks ==
    [][\A c \in Callers :
          (/\ Entered(c)
           /\ req'[c].op = "get_data"
           /\ req'[c].payload \in {PyPayload(INT_1B_INPUT), PyPayload(INT_2B_INPUT),
                                   PyPayload(DIGITAL_INPUT), PyPayload(BYTE_INPUT)})
          => Rejected(c)]_vars

\* C5: send_data with any of the four source kinds raises a validation
\* error, transmits no frame and does not wait on the mailbox.
C5_SendDataRejectsSources ==
    [][\A c \in Callers :
          (/\ Entered(c)
           /\ req'[c].op = "send_data"
           /\ req'[c].payload \in {PyPayload(INT_1B_OUTPUT), PyPayload(INT_2B_OUTPUT),
                                   PyPayload(DIGITAL_OUTPUT), PyPayload(BYTE_OUTPUT)})
          => Rejected(c)]_vars

\* send_data to a source kind, otherwise well-formed, raised ValueError.
C5_Witness ==
    /\ pc["c1"] = "raised"
    /\ req["c1"] = Call("send_data", NodeA, PyPayload(DIGITAL_OUTPUT), PyInt(0),
                        AllTrue(8), None)
    /\ result["c1"] = Raised("ValueError")
    /\ sent = <<>>

\* The argument faults C6 names.
BadIndex(a) ==
    /\ a.op \in {"get_payload_info", "get_data", "send_data"}
    /\ a.index.type = "int"
    /\ (a.index.value < 0 \/ a.index.value > 15)

BadValue(a) ==
    /\ a.op = "send_data"
    /\ \/ /\ a.payload = PyPayload(INT_1B_INPUT)
          /\ a.data.type = "int"
          /\ (a.data.value < 0 \/ a.data.value > 255)
       \/ /\ a.payload = PyPayload(INT_2B_INPUT)
          /\ a.data.type = "int"
          /\ (a.data.value < 0 \/ a.data.value > 65535)
       \/ /\ a.payload = PyPayload(DIGITAL_INPUT)
          /\ ~(/\ a.data.type \in {"list", "tuple"}
               /\ Len(a.data.value) = 8
               /\ \A i \in 1..8 : a.data.value[i].type = "bool")

\* C6: an index outside [0,15] in get_payload_info, get_data and send_data,
\* and in send_data a 1-byte value outside [0,255], a 2-byte value outside
\* [0,65535] or a boolean vector that is not exactly 8 booleans, raise a
\* validation error before any transmission, the mailbox left as it was.
C6_BadArgumentsRejected ==
    [][\A c \in Callers :
          (Entered(c) /\ (BadIndex(req'[c]) \/ BadValue(req'[c]))) => Rejected(c)]_vars

\* get_payload_info(node, kind, 16) on an otherwise valid call raised.
C6_Witness ==
    /\ pc["c1"] = "raised"
    /\ req["c1"] = Call("get_payload_info", NodeA, PyPayload(BYTE_OUTPUT), PyInt(16),
                        PyNone, None)
    /\ result["c1"] = Raised("ValueError")
    /\ sent = <<>>
    /\ message_queue = <<>>

\* Bit n of the byte d.
Bit(d, n) == (d \div Pow2(n)) % 2 = 1

\* C9 as stated: the data byte send_data transmits for a list v of 8 booleans
\* carries list position k in bit 7-k, so that the boolean-vector decode of
\* get_data gives v back.
C9_BoolVectorRoundTrip ==
    \A c \in Callers :
        (/\ Pending(c)
         /\ req[c].op = "send_data"
         /\ req[c].payload = PyPayload(DIGITAL_INPUT)
         /\ Len(sent) = 1)
        => LET v == req[c].data.value
               b == sent[1].data[3]
           IN  /\ \A k \in 0..7 : Bit(b, 7 - k) = v[k + 1].value
               /\ DecodeBools(b) = [k \in 1..8 |-> v[k].value]

\* C10: for every data byte d, get_data for DIGITAL_OUTPUT returns 8 booleans,
\* position k true iff bit 7-k of d is set; 0xB0 gives
\* [true,false,true,true,false,false,false,false].
C10_BoolVectorDecode ==
    \A c \in Callers :
        (/\ pc[c] = "matched"
         /\ req[c].op = "get_data"
         /\ req[c].payload = PyPayload(DIGITAL_OUTPUT))
        => LET d == msg[c].rf_data[3]
               r == result[c]
           IN  /\ r.ok
               /\ DOMAIN r.value = 1..8
               /\ \A k \in 0..7 : r.value[k + 1] = Bit(d, 7 - k)
               /\ d = 176 =>
                      r.value = <<TRUE, FALSE, TRUE, TRUE, FALSE, FALSE, FALSE, FALSE>>

\* get_data for DIGITAL_OUTPUT returned the decode of the byte 0xB0.
C10_Witness ==
    /\ pc["c1"] = "matched"
    /\ req["c1"].op = "get_data"
    /\ req["c1"].payload = PyPayload(DIGITAL_OUTPUT)
    /\ msg["c1"].rf_data = <<DATA_RESPONSE, KindIndexByte(DIGITAL_OUTPUT, 0), 176>>
    /\ result["c1"] =
           Returned(<<TRUE, FALSE, TRUE, TRUE, FALSE, FALSE, FALSE, FALSE>>)

\* The kinds named by the slot bytes of an IO_RESPONSE body.
KindOf(b) == b \div 16
DistinctKinds(body) ==
    /\ \A i \in 1..Len(body) : KindOf(body[i]) \in 0..7
    /\ \A i, j \in 1..Len(body) : i # j => KindOf(body[i]) # KindOf(body[j])

\* C11: a get_node_io call that matched an IO_RESPONSE whose slot bytes carry
\* distinct kinds in 0..7 returns a mapping with exactly one entry per slot
\* byte b, from kind b >> 4 to count (b & 15) + 1, every count in 1..16; the
\* body [0x05, 0x23] gives {INT_1B_OUTPUT: 6, INT_1B_INPUT: 4}.
C11_IoResponseDecoded ==
    (pc["c1"] = "matched" /\ req["c1"].op = "get_node_io") =>
        LET body == Tail1(msg["c1"].rf_data)
            out == result["c1"]
        IN  /\ DistinctKinds(body) =>
                /\ out.ok
                /\ DOMAIN out.value = {KindOf(body[i]) : i \in 1..Len(body)}
                /\ Cardinality(DOMAIN out.value) = Len(body)
                /\ \A i \in 1..Len(body) :
                       /\ out.value[KindOf(body[i])] = (body[i] % 16) + 1
                       /\ out.value[KindOf(body[i])] \in 1..16
            /\ body = <<5, 35>> =>
                   out.value = [k \in {INT_1B_OUTPUT, INT_1B_INPUT} |->
                                   IF k = INT_1B_OUTPUT THEN 6 ELSE 4]

\* A get_node_io call has returned the mapping decoded from [0x05, 0x23].
C11_Witness ==
    /\ pc["c1"] = "matched"
    /\ req["c1"].op = "get_node_io"
    /\ msg["c1"].rf_data = <<IO_RESPONSE, 5, 35>>
    /\ result["c1"].ok
    /\ DOMAIN result["c1"].value = {INT_1B_OUTPUT, INT_1B_INPUT}

\* The packet is a response to the ND command.
IsDiscovery(d) == "command" \in DOMAIN d /\ d.command = "ND"

\* Whether get_nodes() of the registry reg has a node of that long address.
Holds(reg, long_addr) == \E k \in DOMAIN reg : reg[k].long_addr = long_addr

\* C12: every discovery event leaves the registry holding a node of the
\* reported long address, and every node held before, whose long address is
\* another one, is still held, unchanged, under its key: only re-discovery
\* of the same long address overwrites an entry.
C12_DiscoveredNodesKept ==
    [][\A d \in DiscoveryPackets :
          (IsDiscovery(d) /\ HandleData(d)) =>
              /\ Holds(slave_nodes', d.parameter.source_addr_long)
              /\ \A k \in DOMAIN slave_nodes :
                     slave_nodes[k].long_addr # d.parameter.source_addr_long =>
                         /\ Holds(slave_nodes', slave_nodes[k].long_addr)
                         /\ k \in DOMAIN slave_nodes'
                         /\ slave_nodes'[k] = slave_nodes[k]]_vars

\* The predicate on frames the criteria stand for: source, type byte, the
\* prefix after the type byte when one is given, the length when one is given.
Satisfies(m, cr) ==
    LET d == m.rf_data
        f == Val(cr.following)
    IN  /\ m.source_addr_long = cr.node.long_addr
        /\ Len(d) >= 1
        /\ d[1] = cr.type_
        /\ ~IsNone(cr.following) =>
               /\ Len(d) >= 1 + Len(f)
               /\ \A i \in 1..Len(f) : d[1 + i] = f[i]
        /\ ~IsNone(cr.count) => Len(d) = Val(cr.count)

\* C13: for every combination of prefix and length, the frame a scan looks
\* at is accepted exactly when it comes from the target node, starts with
\* the accepted type, continues with the prefix when one is given and has
\* the exact length when one is given (a length of 1 + len(prefix)
\* included); the call that removes an accepted frame returns body[1:].
C13_AcceptsIffCriteria ==
    [][\A c \in Callers :
          /\ (ScanNext(c) /\ idx[c] <= Len(message_queue)) =>
                 ((pc'[c] = "remove" /\ found'[c] = "match")
                     <=> Satisfies(message_queue[idx[c]], crit[c]))
          /\ (Remove(c) /\ pc'[c] = "matched") =>
                 result'[c] = Returned(Tail1(msg[c].rf_data))]_vars

\* The position of the earliest frame of q that satisfies the criteria, 0
\* when there is none.
FirstSatisfying(q, cr) ==
    IF \E i \in 1..Len(q) : Satisfies(q[i], cr)
    THEN CHOOSE i \in 1..Len(q) :
             /\ Satisfies(q[i], cr)
             /\ \A j \in 1..(i - 1) : ~Satisfies(q[j], cr)
    ELSE 0

\* q without the item at position i.
Without(q, i) == SubSeq(q, 1, i - 1) \o SubSeq(q, i + 1, Len(q))

\* C14: with one waiter at a time, a call that consumes a match consumes
\* the earliest frame of the mailbox that satisfies its criteria and
\* returns that frame's body[1:]; exactly that one frame leaves the mailbox
\* and every other frame, later qualifying ones included, stays in arrival
\* order.
C14_EarliestMatchConsumed ==
    [][\A c \in Callers :
          (Remove(c) /\ pc'[c] = "matched") =>
              LET i == FirstSatisfying(message_queue, crit[c])
              IN  /\ i > 0
                  /\ message_queue[i] = msg[c]
                  /\ message_queue' = Without(message_queue, i)
                  /\ result'[c] = Returned(Tail1(message_queue[i].rf_data))]_vars

\* The first call returned [0, 5] while a later frame that satisfies the
\* same criteria is still in the mailbox.
C14_Witness ==
    /\ pc["c1"] = "matched"
    /\ pc["c2"] = "idle"
    /\ result["c1"] = Returned(<<0, 5>>)
    /\ Len(message_queue) = MaxQueue - 1
    /\ message_queue[1].rf_data = <<DATA_RESPONSE, 0, 6>>
    /\ Satisfies(message_queue[1], crit["c1"])

\* C15: with one caller waiting on node A and one on node B, no step of a
\* wait touches the frames of other nodes, and a caller that acts while a
\* frame satisfying its criteria is in the mailbox, ahead of the frame it
\* acts on, returns the payload of that frame of its own node and removes
\* exactly it.
C15_EachReturnsOwnFrame ==
    [][\A c \in Callers :
          /\ WaitStep(c) =>
                 Foreign(message_queue', crit[c].node.long_addr)
                     = Foreign(message_queue, crit[c].node.long_addr)
          /\ Remove(c) =>
                 LET i == FirstSatisfying(message_queue, crit[c])
                     n == IndexOf(message_queue, msg[c], 1)
                 IN  (i > 0 /\ (n = 0 \/ i <= n)) =>
                         /\ pc'[c] = "matched"
                         /\ result'[c].value = message_queue[i].rf_data[3]
                         /\ message_queue' = Without(message_queue, i)]_vars

\* C16: the delivery callback is always ready to run (it never blocks) and
\* every frame of the mailbox starts with 17, 19, 21, 254 or 255; each
\* invocation either appends its frame at the end of the mailbox, which it
\* does exactly for a frame starting with one of these bytes, or registers
\* the node of a discovery event, or leaves mailbox and registry as they
\* are: it never removes or reorders a frame.
C16_DeliveryOnlyAppends ==
    /\ [](\A d \in DiscoveryPackets \cup InboundPackets :
              Len(message_queue) < MaxQueue => ENABLED HandleData(d))
    /\ [](\A i \in 1..Len(message_queue) :
              message_queue[i].rf_data[1] \in {17, 19, 21, 254, 255})
    /\ [][\A d \in DiscoveryPackets \cup InboundPackets :
              HandleData(d) =>
                  LET queued == /\ "rf_data" \in DOMAIN d
                                /\ d.rf_data[1] \in {17, 19, 21, 254, 255}
                  IN  /\ queued =>
                          /\ message_queue' = Append(message_queue, d)
                          /\ slave_nodes' = slave_nodes
                      /\ ~queued =>
                          /\ message_queue' = message_queue
                          /\ \/ slave_nodes' = slave_nodes
                             \/ /\ IsDiscovery(d)
                                /\ \E k \in DOMAIN slave_nodes' :
                                       /\ DOMAIN slave_nodes' = DOMAIN slave_nodes \cup {k}
                                       /\ slave_nodes'[k].long_addr
                                              = d.parameter.source_addr_long
                                       /\ \A j \in DOMAIN slave_nodes \ {k} :
                                              slave_nodes'[j] = slave_nodes[j]]_vars

\* The callback has queued two frames and registered a node.
C16_Witness ==
    /\ Len(message_queue) = 2
    /\ message_queue[1].rf_data[1] = IO_RESPONSE
    /\ message_queue[2].rf_data[1] = CTRL_NACK
    /\ DOMAIN slave_nodes # {}

\* C17: while the caller is pending in _wait_for_response, the handling of
\* a delivery report with a status other than 0 can end that wait with an
\* error for the caller.
C17_FailedDeliverySurfaced ==
    Pending("c1") =>
        ENABLED (/\ HandleData(TxStatus(<<1>>))
                 /\ ~Pending("c1")'
                 /\ ~result'["c1"].ok)

\* C18: the mailbox loses frames only one at a time and only in the removal
\* step of a call that then returns the removed frame as its match or raises
\* the NACK error for it; that step ends the call, an ended call takes no
\* further step, so each call removes at most one frame; a call that ends in
\* the timeout error, or in any other way, removes nothing.
C18_RemovedOnceByItsCall ==
    [][/\ (message_queue' # message_queue
              /\ Len(message_queue') <= Len(message_queue)) =>
              \E c \in Callers : Remove(c) /\ pc'[c] \in {"matched", "nacked"}
       /\ \A c \in Callers :
              /\ (Remove(c) /\ pc'[c] \in {"matched", "nacked"}) =>
                     /\ RemovedOne(message_queue, message_queue', msg[c])
                     /\ msg[c].source_addr_long = crit[c].node.long_addr
                     /\ pc'[c] = "matched" =>
                            /\ msg[c].rf_data[1] = crit[c].type_
                            /\ result'[c].ok
                     /\ pc'[c] = "nacked" =>
                            /\ msg[c].rf_data = <<254, crit[c].fail_type>>
                            /\ result'[c] = Raised("ProtocolError")
              /\ (WaitStep(c) /\ pc'[c] \notin {"matched", "nacked"}) =>
                     message_queue' = message_queue
              /\ Remove(c) => Ended(c)'
              /\ Ended(c) => pc'[c] = pc[c]]_vars

\* One call has ended in the timeout error and the other in the NACK error,
\* with a frame still in the mailbox.
C18_Witness ==
    /\ pc["c1"] = "timed_out"
    /\ pc["c2"] = "nacked"
    /\ message_queue # <<>>

\* The frame ends a wait under these criteria: as its response or as the
\* NACK of its request.
EndsWait(m, cr) == Accepts(m, cr) \/ IsNackFor(m, cr)

\* C19: once a call has ended (by its timeout, for one) and until the next
\* call begins, frames that arrive stay in the mailbox in order; the next
\* call under the same node, types, prefix and length starts its scan at the
\* front of the mailbox and cannot reach the end of its first pass while a
\* frame that was a response to the earlier request, or the NACK of it, is
\* there: it removes the earliest such frame and returns its body[1:], or
\* raises the NACK error.
C19_StaleFrameTaken ==
    [][/\ (Ended("c1") /\ pc["c2"] = "idle" /\ pc'["c2"] = "idle") =>
              /\ Len(message_queue') >= Len(message_queue)
              /\ SubSeq(message_queue', 1, Len(message_queue)) = message_queue
       /\ (Ended("c1") /\ pc["c2"] = "idle" /\ pc'["c2"] # "idle") =>
              /\ crit'["c2"] = Again(crit["c1"])
              /\ pc'["c2"] = "scan"
              /\ idx'["c2"] = 1
              /\ message_queue' = message_queue
       /\ (ScanNext("c2") /\ pc'["c2"] = "scan") =>
              \A i \in 1..(idx'["c2"] - 1) :
                  ~EndsWait(message_queue[i], crit["c2"])
       /\ (ScanNext("c2") /\ pc'["c2"] = "deadline") =>
              \A i \in 1..Len(message_queue) :
                  ~EndsWait(message_queue[i], crit["c2"])
       /\ (ScanNext("c2") /\ pc'["c2"] = "remove") =>
              /\ msg'["c2"] = message_queue[idx["c2"]]
              /\ EndsWait(msg'["c2"], crit["c2"])
       /\ Remove("c2") =>
              /\ RemovedOne(message_queue, message_queue', msg["c2"])
              /\ result'["c2"] =
                     IF msg["c2"].rf_data[1] = CTRL_NACK
                     THEN Raised("ProtocolError")
                     ELSE Returned(Tail1(msg["c2"].rf_data))]_vars

\* The first call timed out; the call after it returned the response [0, 5].
C19_Witness ==
    /\ pc["c1"] = "timed_out"
    /\ pc["c2"] = "matched"
    /\ result["c2"] = Returned(<<0, 5>>)
    /\ crit["c2"] = Again(crit["c1"])

\* The frame is the NACK [254, failType] of the target node.
NackOf(m, cr) ==
    /\ m.source_addr_long = cr.node.long_addr
    /\ m.rf_data = <<254, cr.fail_type>>

\* The positions of the earliest frame of q the criteria accept and of the
\* earliest NACK of the request in q, 0 when there is none.
FirstAccepted(q, cr) ==
    IF \E i \in 1..Len(q) : Accepts(q[i], cr)
    THEN CHOOSE i \in 1..Len(q) :
             Accepts(q[i], cr) /\ \A j \in 1..(i - 1) : ~Accepts(q[j], cr)
    ELSE 0

FirstNack(q, cr) ==
    IF \E i \in 1..Len(q) : NackOf(q[i], cr)
    THEN CHOOSE i \in 1..Len(q) :
             NackOf(q[i], cr) /\ \A j \in 1..(i - 1) : ~NackOf(q[j], cr)
    ELSE 0

\* C20: when a single waiter removes a frame while the mailbox holds both a
\* frame its criteria accept and the NACK [254, failType] of its target
\* node, the one that arrived first decides: with the accepted frame ahead
\* the call returns that frame's body[1:] and the NACK stays, with the NACK
\* ahead the call raises the NACK error and the accepted frame stays; in
\* both cases nothing else leaves the mailbox.
C20_ArrivalOrderDecides ==
    [][\A c \in Callers :
          Remove(c) =>
              LET a == FirstAccepted(message_queue, crit[c])
                  n == FirstNack(message_queue, crit[c])
              IN  (a > 0 /\ n > 0) =>
                      IF a < n
                      THEN /\ pc'[c] = "matched"
                           /\ result'[c] = Returned(Tail1(message_queue[a].rf_data))
                           /\ message_queue' = Without(message_queue, a)
                           /\ Contains(message_queue', message_queue[n])
                      ELSE /\ pc'[c] = "nacked"
                           /\ result'[c] = Raised("ProtocolError")
                           /\ message_queue' = Without(message_queue, n)
                           /\ Contains(message_queue', message_queue[a])]_vars

\* The call failed with the NACK error and a frame its criteria accept is
\* still at the front of the mailbox.
C20_Witness ==
    /\ pc["c1"] = "nacked"
    /\ pc["c2"] = "idle"
    /\ message_queue # <<>>
    /\ Accepts(message_queue[1], crit["c1"])

====
